---------------------------- MODULE Spec2Model ----------------------------
(***************************************************************************)
(* A model of the reximage package (src/reximage.go): the CellData and     *)
(* ImageData value types, their methods, and the .xp codec Import/Export.  *)
(*                                                                         *)
(* Representation choices.                                                 *)
(*  - A byte is a number in 0..255; a byte stream is a sequence of bytes.  *)
(*  - A packed uint32 colour is the tuple <<b3, b2, b1, b0>> of its four   *)
(*    bytes, most significant first (TLC's integers are 32-bit signed, so  *)
(*    0xFFFFFFFF is not an integer of the model).  Shifts by 8, 16 and 24  *)
(*    and the mask 0xFF are exact on this representation.                  *)
(*  - Glyph, width, height and layer count are uint32 in the code; the     *)
(*    model only produces values below 2^31, where uint32 arithmetic and   *)
(*    integer arithmetic agree.                                            *)
(*  - An error value is a string; "nil" is Go's nil error.                 *)
(*  - compress/gzip and os are not code of the package.  The file on disk  *)
(*    is modelled by what gzip.NewReader and the reader it returns hand to *)
(*    Import: whether the gzip header is accepted and the number of bytes  *)
(*    of the payload that decompress before the reader reports the end of  *)
(*    the data.  A cut file delivers a prefix of its payload and then      *)
(*    fails every read.                                                    *)
(***************************************************************************)
EXTENDS Integers, Sequences, FiniteSets, TLC

VARIABLES
    cell,    \* a CellData value held by the caller
    image,   \* an ImageData value held by the caller
    disk,    \* the one file of the directory the caller works in
    origin,  \* history: how the contents of disk came about
    ret      \* the outcome of the most recent call

vars == <<cell, image, disk, origin, ret>>

---------------------------------------------------------------------------
(* Bounds of the model *)

\* widths are in 0..MaxW and heights in 0..MaxH
MaxW == 2
MaxH == 3
\* an image, and a layer of a file, has at most MaxCells cells
MaxCells == 6
\* a file saved by REXPaint has at most MaxLayers layers
MaxLayers == 2
\* the caller's image holds at most MaxDrawn cells that differ from a
\* cleared cell
MaxDrawn == 2

---------------------------------------------------------------------------
(* Errors *)

NoErr == "nil"
ErrNoData == "Image has no data."
ErrBounds == "x, y coordinates out of bounds."
ErrNotXP == "File is not an XP image."
ErrOpen == "open: no such file"
ErrCreate == "create: permission denied"
ErrGzipHeader == "gzip: invalid header"
ErrEOF == "EOF"
ErrUnexpectedEOF == "unexpected EOF"

---------------------------------------------------------------------------
(* Bytes and fixed-width integers *)

Bytes == 0..255

\* byte i (0 = least significant) of the two's complement form of v
ByteOf(v, i) ==
    LET d == IF i = 0 THEN 1 ELSE IF i = 1 THEN 256
             ELSE IF i = 2 THEN 65536 ELSE 16777216
    IN  (v \div d) % 256

\* binary.Write(buf, binary.LittleEndian, v) for a 32-bit v
PutLE32(v) == <<ByteOf(v, 0), ByteOf(v, 1), ByteOf(v, 2), ByteOf(v, 3)>>

\* binary.LittleEndian.Uint32(b), for values below 2^31
LE32(b) == b[1] + 256 * b[2] + 65536 * b[3] + 16777216 * b[4]

\* the same four bytes read as an int32
LE32Signed(b) ==
    b[1] + 256 * b[2] + 65536 * b[3]
         + 16777216 * (IF b[4] >= 128 THEN b[4] - 256 ELSE b[4])

\* a packed uint32 colour: <<b3, b2, b1, b0>>
U32(b3, b2, b1, b0) == <<b3, b2, b1, b0>>

\* v >> n for n in {8, 16, 24}
Shr(v, n) ==
    IF n = 8 THEN <<0, v[1], v[2], v[3]>>
    ELSE IF n = 16 THEN <<0, 0, v[1], v[2]>>
    ELSE <<0, 0, 0, v[1]>>

\* uint8(v), and v & 0xFF: the low byte
U8(v) == v[4]

---------------------------------------------------------------------------
(* CellData *)

CellData(g, rf, gf, bf, rb, gb, bb) ==
    [Glyph |-> g, R_f |-> rf, G_f |-> gf, B_f |-> bf,
     R_b |-> rb, G_b |-> gb, B_b |-> bb]

\* CellData{}: Go's zero value
ZeroCell == CellData(0, 0, 0, 0, 0, 0, 0)

\* func (cd *CellData) Clear()
Clear(cd) ==
    [cd EXCEPT !.Glyph = 0,
               !.R_b = 255, !.G_b = 0, !.B_b = 255,
               !.R_f = 0, !.G_f = 0, !.B_f = 0]

\* func (cd CellData) Undrawn() bool
Undrawn(cd) == cd.R_b = 255 /\ cd.G_b = 0 /\ cd.B_b = 255

\* func (cd CellData) ARGB() (fore, back uint32)
ARGB(cd) ==
    [fore |-> U32(255, cd.R_f, cd.G_f, cd.B_f),
     back |-> U32(255, cd.R_b, cd.G_b, cd.B_b)]

\* func (cd CellData) RGBA() (fore, back uint32)
RGBA(cd) ==
    [fore |-> U32(cd.R_f, cd.G_f, cd.B_f, 255),
     back |-> U32(cd.R_b, cd.G_b, cd.B_b, 255)]

\* SetColoursARGB with the foreground cleared on the undrawn branch
SetColoursARGB_ClearsFore(cd, fore, back) ==
    IF U8(Shr(back, 24)) = 0
    THEN [cd EXCEPT !.B_b = 255, !.G_b = 0, !.R_b = 255,
                    !.B_f = 0, !.G_f = 0, !.R_f = 0]
    ELSE [cd EXCEPT !.B_f = U8(fore),
                    !.G_f = U8(Shr(fore, 8)),
                    !.R_f = U8(Shr(fore, 16)),
                    !.B_b = U8(back),
                    !.G_b = U8(Shr(back, 8)),
                    !.R_b = U8(Shr(back, 16))]

\* func (cd *CellData) SetColoursARGB(fore, back uint32)
SetColoursARGB(cd, fore, back) ==
    IF U8(Shr(back, 24)) = 0
    THEN [cd EXCEPT !.B_b = 255, !.G_b = 0, !.R_b = 255]
    ELSE [cd EXCEPT !.B_f = U8(fore),
                    !.G_f = U8(Shr(fore, 8)),
                    !.R_f = U8(Shr(fore, 16)),
                    !.B_b = U8(back),
                    !.G_b = U8(Shr(back, 8)),
                    !.R_b = U8(Shr(back, 16))]

\* func (cd *CellData) SetColoursRGBA(fore, back uint32)
SetColoursRGBA(cd, fore, back) ==
    IF U8(back) = 0
    THEN [cd EXCEPT !.R_b = 255, !.G_b = 0, !.B_b = 255]
    ELSE [cd EXCEPT !.B_f = U8(Shr(fore, 8)),
                    !.G_f = U8(Shr(fore, 16)),
                    !.R_f = U8(Shr(fore, 24)),
                    !.B_b = U8(Shr(back, 8)),
                    !.G_b = U8(Shr(back, 16)),
                    !.R_b = U8(Shr(back, 24))]

---------------------------------------------------------------------------
(* ImageData *)

\* ImageData{}: Go's zero value (Cells is nil)
ZeroImage == [Width |-> 0, Height |-> 0, Cells |-> <<>>]

\* Init with a slice of width+height elements
ImageInit_Sum(width, height) ==
    [Width |-> width, Height |-> height,
     Cells |-> [i \in 1..(width + height) |-> Clear(ZeroCell)]]

\* func (id *ImageData) Init(width, height int), for width*height >= 0
ImageInit(width, height) ==
    [Width |-> width, Height |-> height,
     Cells |-> [i \in 1..(width * height) |-> Clear(ZeroCell)]]

\* func (id ImageData) GetCell(x, y int) (cd CellData, err error).
\* Cells[k] of the code is Cells[k + 1] here.  panic: the index expression
\* runs off the slice.
GetCell(id, x, y) ==
    IF Len(id.Cells) = 0
    THEN [cd |-> ZeroCell, err |-> ErrNoData, panic |-> FALSE]
    ELSE IF x >= id.Width \/ y >= id.Height \/ x < 0 \/ y < 0
    THEN [cd |-> ZeroCell, err |-> ErrBounds, panic |-> FALSE]
    ELSE IF x + y * id.Width >= Len(id.Cells)
    THEN [cd |-> ZeroCell, err |-> NoErr, panic |-> TRUE]
    ELSE [cd |-> id.Cells[x + y * id.Width + 1], err |-> NoErr,
          panic |-> FALSE]

\* SetCell with > for >= in the bounds check
SetCell_OffByOne(id, x, y, c) ==
    IF x > id.Width \/ y > id.Height \/ x < 0 \/ y < 0
    THEN [id |-> id, err |-> ErrBounds, panic |-> FALSE]
    ELSE IF x + y * id.Width >= Len(id.Cells)
    THEN [id |-> id, err |-> NoErr, panic |-> TRUE]
    ELSE [id |-> [id EXCEPT !.Cells[x + y * id.Width + 1] = c],
          err |-> NoErr, panic |-> FALSE]

\* func (id *ImageData) SetCell(x, y int, cell CellData) (err error)
SetCell(id, x, y, c) ==
    IF x >= id.Width \/ y >= id.Height \/ x < 0 \/ y < 0
    THEN [id |-> id, err |-> ErrBounds, panic |-> FALSE]
    ELSE IF x + y * id.Width >= Len(id.Cells)
    THEN [id |-> id, err |-> NoErr, panic |-> TRUE]
    ELSE [id |-> [id EXCEPT !.Cells[x + y * id.Width + 1] = c],
          err |-> NoErr, panic |-> FALSE]

---------------------------------------------------------------------------
(* Paths and the file on disk *)

\* a path is a sequence of characters
XP == <<".", "x", "p">>
PathBare == <<"a">>
PathXP == <<"a", ".", "x", "p">>
Paths == {PathBare, PathXP}

\* strings.HasSuffix(s, suffix)
HasSuffix(s, suffix) ==
    /\ Len(s) >= Len(suffix)
    /\ SubSeq(s, Len(s) - Len(suffix) + 1, Len(s)) = suffix

NoFile == [exists |-> FALSE, name |-> <<>>, data |-> <<>>]

---------------------------------------------------------------------------
(* The .xp codec *)

\* the record with the background written before the foreground
PutCell_BackFirst(c) ==
    PutLE32(c.Glyph) \o <<c.R_b, c.G_b, c.B_b, c.R_f, c.G_f, c.B_f>>

\* binary.Write(buf, binary.LittleEndian, cell): the fields in declaration
\* order, no padding
PutCell(c) ==
    PutLE32(c.Glyph) \o <<c.R_f, c.G_f, c.B_f, c.R_b, c.G_b, c.B_b>>

\* the CellData binary.Read fills from the 10 bytes of a record
CellOfBytes(bs) ==
    CellData(LE32(SubSeq(bs, 1, 4)), bs[5], bs[6], bs[7], bs[8], bs[9],
             bs[10])

\* binary.Size(CellData{})
CellSize == Len(PutCell(ZeroCell))

\* binary.Read(data, binary.LittleEndian, &v) for a v of n bytes, with the
\* reader at offset pos: io.ReadFull takes n bytes, or takes what is left
\* and fails (v then keeps its value)
BinaryRead(data, pos, n) ==
    IF pos + n <= Len(data)
    THEN [bs |-> SubSeq(data, pos + 1, pos + n), pos |-> pos + n,
          err |-> NoErr]
    ELSE [bs |-> <<>>, pos |-> Len(data),
          err |-> IF pos = Len(data) THEN ErrEOF ELSE ErrUnexpectedEOF]

\* the cell loop of Import, for ImportLayers_NoDims
RECURSIVE ImportCells_Std(_, _, _)
ImportCells_Std(data, st, i) ==
    IF i >= st.image.Width * st.image.Height
    THEN st
    ELSE LET r == BinaryRead(data, st.pos, CellSize)
         IN  IF r.err # NoErr
             THEN [st EXCEPT !.pos = r.pos, !.err = r.err,
                             !.returned = TRUE]
             ELSE ImportCells_Std(data,
                    [st EXCEPT
                       !.image = SetCell(st.image,
                                         i \div st.image.Height,
                                         i % st.image.Height,
                                         CellOfBytes(r.bs)).id,
                       !.pos = r.pos, !.err = r.err],
                    i + 1)

\* the cell loop of Import with undrawn cells left unpainted
RECURSIVE ImportCells_Blend(_, _, _)
ImportCells_Blend(data, st, i) ==
    IF i >= st.image.Width * st.image.Height
    THEN st
    ELSE LET r == BinaryRead(data, st.pos, CellSize)
         IN  IF r.err # NoErr
             THEN [st EXCEPT !.pos = r.pos, !.err = r.err,
                             !.returned = TRUE]
             ELSE ImportCells_Blend(data,
                    [st EXCEPT
                       !.image = IF Undrawn(CellOfBytes(r.bs))
                                 THEN st.image
                                 ELSE SetCell(st.image,
                                         i \div st.image.Height,
                                         i % st.image.Height,
                                         CellOfBytes(r.bs)).id,
                       !.pos = r.pos, !.err = r.err],
                    i + 1)

\* the cell loop of Import with record i placed at (i % Width, i / Width)
RECURSIVE ImportCells_RowMajor(_, _, _)
ImportCells_RowMajor(data, st, i) ==
    IF i >= st.image.Width * st.image.Height
    THEN st
    ELSE LET r == BinaryRead(data, st.pos, CellSize)
         IN  IF r.err # NoErr
             THEN [st EXCEPT !.pos = r.pos, !.err = r.err,
                             !.returned = TRUE]
             ELSE ImportCells_RowMajor(data,
                    [st EXCEPT
                       !.image = SetCell(st.image,
                                         i % st.image.Width,
                                         i \div st.image.Width,
                                         CellOfBytes(r.bs)).id,
                       !.pos = r.pos, !.err = r.err],
                    i + 1)

\* the cell loop of Import with SetCell called before the error check
RECURSIVE ImportCells_SetBeforeCheck(_, _, _)
ImportCells_SetBeforeCheck(data, st, i) ==
    IF i >= st.image.Width * st.image.Height
    THEN st
    ELSE LET r == BinaryRead(data, st.pos, CellSize)
         IN  IF r.err # NoErr
             THEN [st EXCEPT !.image = SetCell(st.image,
                                                  i \div st.image.Height,
                                                  i % st.image.Height,
                                                  ZeroCell).id,
                             !.pos = r.pos, !.err = r.err,
                             !.returned = TRUE]
             ELSE ImportCells_SetBeforeCheck(data,
                    [st EXCEPT
                       !.image = SetCell(st.image,
                                         i \div st.image.Height,
                                         i % st.image.Height,
                                         CellOfBytes(r.bs)).id,
                       !.pos = r.pos, !.err = r.err],
                    i + 1)

\* the cell loop of Import with the result of binary.Read dropped
RECURSIVE ImportCells_IgnoreErr(_, _, _)
ImportCells_IgnoreErr(data, st, i) ==
    IF i >= st.image.Width * st.image.Height
    THEN st
    ELSE LET r == BinaryRead(data, st.pos, CellSize)
         IN  IF r.err # NoErr
             THEN ImportCells_IgnoreErr(data, [st EXCEPT !.pos = r.pos],
                                        i + 1)
             ELSE ImportCells_IgnoreErr(data,
                    [st EXCEPT
                       !.image = SetCell(st.image,
                                         i \div st.image.Height,
                                         i % st.image.Height,
                                         CellOfBytes(r.bs)).id,
                       !.pos = r.pos, !.err = r.err],
                    i + 1)

\* the layer loop of Import without the reads of later layers' dimensions
RECURSIVE ImportLayers_NoDims(_, _, _, _)
ImportLayers_NoDims(data, st, layer, numLayers) ==
    IF layer >= numLayers
    THEN st
    ELSE LET st2 == ImportCells_Std(data, st, 0)
         IN  IF st2.returned
             THEN st2
             ELSE ImportLayers_NoDims(data, st2, layer + 1, numLayers)

\* the loop "for i := range image.Width * image.Height" of Import, from
\* iteration i on; st = [image, pos, err, returned]
RECURSIVE ImportCells(_, _, _)
ImportCells(data, st, i) ==
    IF i >= st.image.Width * st.image.Height
    THEN st
    ELSE LET r == BinaryRead(data, st.pos, CellSize)
         IN  IF r.err # NoErr
             THEN [st EXCEPT !.pos = r.pos, !.err = r.err,
                             !.returned = TRUE]
             ELSE ImportCells(data,
                    [st EXCEPT
                       !.image = SetCell(st.image,
                                         i \div st.image.Height,
                                         i % st.image.Height,
                                         CellOfBytes(r.bs)).id,
                       !.pos = r.pos, !.err = r.err],
                    i + 1)

\* the loop "for layer := range int(numLayers)" of Import, from iteration
\* layer on
RECURSIVE ImportLayers(_, _, _, _)
ImportLayers(data, st, layer, numLayers) ==
    IF layer >= numLayers
    THEN st
    ELSE LET rw == BinaryRead(data, st.pos, 4)
             rh == BinaryRead(data, rw.pos, 4)
             st1 == IF layer # 0
                    THEN [st EXCEPT !.pos = rh.pos, !.err = rh.err]
                    ELSE st
             st2 == ImportCells(data, st1, 0)
         IN  IF st2.returned
             THEN st2
             ELSE ImportLayers(data, st2, layer + 1, numLayers)

\* func Import(path string) (image ImageData, err error).
\* dk is the file on disk; hdr tells whether gzip.NewReader accepts the
\* file's header; data is what the gzip reader delivers before its end.
\* The result also carries pos, the number of bytes taken from the reader.
ImportFrom(path, dk, hdr, data) ==
    LET fail(e) == [image |-> ZeroImage, err |-> e, pos |-> 0]
        rv == BinaryRead(data, 0, 4)
        rn == BinaryRead(data, rv.pos, 4)
        rw == BinaryRead(data, rn.pos, 4)
        rh == BinaryRead(data, rw.pos, 4)
        w  == IF rw.err = NoErr THEN LE32(rw.bs) ELSE 0
        h  == IF rh.err = NoErr THEN LE32(rh.bs) ELSE 0
        st == ImportLayers(data,
                [image |-> ImageInit(w, h), pos |-> rh.pos,
                 err |-> rh.err, returned |-> FALSE],
                0, LE32(rn.bs))
    IN  IF ~HasSuffix(path, XP) THEN fail(ErrNotXP)
        ELSE IF ~(dk.exists /\ dk.name = path) THEN fail(ErrOpen)
        ELSE IF ~hdr THEN fail(ErrGzipHeader)
        ELSE IF rn.err # NoErr
        THEN [image |-> ZeroImage, err |-> rn.err, pos |-> rn.pos]
        ELSE IF rh.err # NoErr
        THEN [image |-> ZeroImage, err |-> rh.err, pos |-> rh.pos]
        ELSE [image |-> st.image, err |-> st.err, pos |-> st.pos]

\* the gzip reader over a file of which only the first n payload bytes
\* decompress
Import(path, dk, hdr, n) == ImportFrom(path, dk, hdr, SubSeq(dk.data, 1, n))

\* Export's loops with y outside and x inside
RECURSIVE ExportCells_RowMajor(_, _, _)
ExportCells_RowMajor(img, y, x) ==
    IF y >= img.Height THEN <<>>
    ELSE IF x >= img.Width THEN ExportCells_RowMajor(img, y + 1, 0)
    ELSE PutCell(GetCell(img, x, y).cd)
             \o ExportCells_RowMajor(img, y, x + 1)

\* the loops "for x := range image.Width { for y := range image.Height"
\* of Export, from iteration (x, y) on
RECURSIVE ExportCells(_, _, _)
ExportCells(img, x, y) ==
    IF x >= img.Width THEN <<>>
    ELSE IF y >= img.Height THEN ExportCells(img, x + 1, 0)
    ELSE PutCell(GetCell(img, x, y).cd) \o ExportCells(img, x, y + 1)

\* imagebuffer of Export
ExportBuffer(img) ==
    PutLE32(-1) \o PutLE32(1) \o PutLE32(img.Width) \o PutLE32(img.Height)
        \o ExportCells(img, 0, 0)

\* func Export(image ImageData, path string) (err error).
\* created tells whether os.Create succeeds.
Export(img, path, dk, created) ==
    LET p == IF ~HasSuffix(path, XP) THEN path \o XP ELSE path
    IN  IF ~created
        THEN [disk |-> dk, err |-> ErrCreate]
        ELSE [disk |-> [exists |-> TRUE, name |-> p,
                        data |-> ExportBuffer(img)],
              err |-> NoErr]

---------------------------------------------------------------------------
(* Files saved by REXPaint: the .xp layout, layer after layer *)

\* the cell REXPaint stores as record k of layer l (l = 1 is the lowest):
\* glyphs differ from record to record and from layer to layer, and every
\* other record of a layer is undrawn
PaintCell(l, k) ==
    IF (k + l) % 2 = 0
    THEN CellData(256 * l + 65 + k, l, k, 7, 255, 0, 255)
    ELSE CellData(256 * l + 65 + k, l, k, 7, 10 * l, k, 3)

RECURSIVE PaintRecords(_, _, _)
PaintRecords(l, k, n) ==
    IF k >= n THEN <<>>
    ELSE PutCell(PaintCell(l, k)) \o PaintRecords(l, k + 1, n)

\* layer l of width w and height h: its dimensions, then w*h records
PaintLayer(l, w, h) ==
    PutLE32(w) \o PutLE32(h) \o PaintRecords(l, 0, w * h)

\* d = [ver, n, w, h, w2, h2]: version ver, n layers, the first of w by h
\* and every later one of w2 by h2
RECURSIVE PaintLayers(_, _)
PaintLayers(d, l) ==
    IF l > d.n THEN <<>>
    ELSE (IF l = 1 THEN PaintLayer(l, d.w, d.h)
                   ELSE PaintLayer(l, d.w2, d.h2))
         \o PaintLayers(d, l + 1)

PaintFile(d) == PutLE32(d.ver) \o PutLE32(d.n) \o PaintLayers(d, 1)

Dims == {wh \in (0..MaxW) \X (0..MaxH) : wh[1] * wh[2] <= MaxCells}

PaintVersions == {-1, 1}

\* the files REXPaint may have saved
PaintDescs ==
    {d \in [ver : PaintVersions, n : 0..MaxLayers, w : 0..MaxW,
            h : 0..MaxH, w2 : 0..MaxW, h2 : 0..MaxH] :
        /\ <<d.w, d.h>> \in Dims
        /\ <<d.w2, d.h2>> \in Dims
        /\ (d.n = 0 => d.w = 0 /\ d.h = 0)
        /\ (d.n <= 1 => d.w2 = d.w /\ d.h2 = d.h)}

---------------------------------------------------------------------------
(* The state machine: a caller of the package, and REXPaint *)

\* the cells a caller passes to SetCell
CellX == CellData(88, 255, 255, 255, 0, 0, 0)
CellRich == CellData(16909060, 5, 6, 7, 8, 9, 10)
CellValues == {CellX, CellRich}

Xs == -1..MaxW
Ys == -1..MaxH

\* the number of cells of img that differ from a cleared cell
Drawn(img) ==
    Cardinality({i \in DOMAIN img.Cells : img.Cells[i] # Clear(ZeroCell)})

Init ==
    /\ cell = ZeroCell
    /\ image = ZeroImage
    /\ disk = NoFile
    /\ origin = [kind |-> "none"]
    /\ ret = [op |-> "none", err |-> NoErr, panic |-> FALSE]

\* image.Init(w, h)
InitOp(w, h) ==
    /\ image' = ImageInit(w, h)
    /\ ret' = [op |-> "Init", err |-> NoErr, panic |-> FALSE]
    /\ UNCHANGED <<cell, disk, origin>>

\* err = image.SetCell(x, y, c)
SetCellOp(x, y, c) ==
    LET r == SetCell(image, x, y, c)
    IN  /\ image' = r.id
        /\ ret' = [op |-> "SetCell", err |-> r.err, panic |-> r.panic]
        /\ UNCHANGED <<cell, disk, origin>>

\* cd, err = image.GetCell(x, y)
GetCellOp(x, y) ==
    LET r == GetCell(image, x, y)
    IN  /\ ret' = [op |-> "GetCell", err |-> r.err, panic |-> r.panic,
                   cd |-> r.cd]
        /\ UNCHANGED <<cell, image, disk, origin>>

\* err = Export(image, path)
ExportOp(path, created) ==
    LET r == Export(image, path, disk, created)
    IN  /\ disk' = r.disk
        /\ origin' = IF r.err = NoErr
                     THEN [kind |-> "Export", image |-> image]
                     ELSE origin
        /\ ret' = [op |-> "Export", err |-> r.err, panic |-> FALSE]
        /\ UNCHANGED <<cell, image>>

\* image, err = Import(path), where the gzip header is accepted or not
\* (hdr) and n bytes of the payload decompress.  No reader is made, and n
\* is 0, when the file is not opened or its header is refused.
ImportOp(path, hdr, n) ==
    LET r == Import(path, disk, hdr, n)
    IN  /\ (~(HasSuffix(path, XP) /\ disk.exists /\ disk.name = path)
              => ~hdr)
        /\ (~hdr => n = 0)
        /\ image' = r.image
        /\ ret' = [op |-> "Import", err |-> r.err, panic |-> FALSE,
                   path |-> path, hdr |-> hdr, cut |-> n, pos |-> r.pos]
        /\ UNCHANGED <<cell, disk, origin>>

\* the caller removes the file
RemoveOp ==
    /\ disk.exists
    /\ disk' = NoFile
    /\ origin' = [kind |-> "none"]
    /\ ret' = [op |-> "Remove", err |-> NoErr, panic |-> FALSE]
    /\ UNCHANGED <<cell, image>>

\* REXPaint saves a drawing as a.xp, once
RexPaintSave(d) ==
    /\ ~disk.exists
    /\ disk' = [exists |-> TRUE, name |-> PathXP, data |-> PaintFile(d)]
    /\ origin' = [kind |-> "Paint", d |-> d]
    /\ ret' = [op |-> "RexPaintSave", err |-> NoErr, panic |-> FALSE]
    /\ UNCHANGED <<cell, image>>

\* A caller that builds images, reads cells, exports, imports and removes
\* its file, in any order, except that it works on its image only while no
\* file is on disk, and draws at most MaxDrawn cells.  (An Import that
\* follows an Import is left out: it gives what the second gives alone.)
Next ==
    \/ /\ ~disk.exists
       /\ \E wh \in Dims : InitOp(wh[1], wh[2])
    \/ /\ ~disk.exists
       /\ \E x \in Xs, y \in Ys, c \in CellValues :
             SetCellOp(x, y, c) /\ Drawn(image') <= MaxDrawn
    \/ /\ ~disk.exists
       /\ \E x \in Xs, y \in Ys : GetCellOp(x, y)
    \/ \E path \in Paths, created \in BOOLEAN : ExportOp(path, created)
    \/ /\ ret.op # "Import"
       /\ \E path \in Paths, hdr \in BOOLEAN, n \in 0..Len(disk.data) :
             ImportOp(path, hdr, n)
    \/ RemoveOp

Spec == Init /\ [][Next]_vars

\* a caller that imports, once, a file REXPaint saved
NextStream ==
    \/ \E d \in PaintDescs : RexPaintSave(d)
    \/ /\ ret.op # "Import"
       /\ \E path \in Paths, hdr \in BOOLEAN, n \in 0..Len(disk.data) :
             ImportOp(path, hdr, n)

SpecStream == Init /\ [][NextStream]_vars

---------------------------------------------------------------------------
(* The state machine of one CellData value *)

Glyphs == {0, 88, 16909060}

\* packed colours a caller passes: 0xFFFFFFFF, 0x00102030, 0x80010203
ForeInputs == {U32(255, 255, 255, 255), U32(0, 16, 32, 48), U32(128, 1, 2, 3)}

\* 0xFF000000, 0x00112233, 0x11223300, 0x00000000, 0x01FF00FF
BackInputs ==
    {U32(255, 0, 0, 0), U32(0, 17, 34, 51), U32(17, 34, 51, 0),
     U32(0, 0, 0, 0), U32(1, 255, 0, 255)}

\* cell.Glyph = g
SetGlyphOp(g) ==
    /\ cell' = [cell EXCEPT !.Glyph = g]
    /\ ret' = [op |-> "SetGlyph", err |-> NoErr, panic |-> FALSE,
               before |-> cell]
    /\ UNCHANGED <<image, disk, origin>>

\* cell.Clear()
ClearOp ==
    /\ cell' = Clear(cell)
    /\ ret' = [op |-> "Clear", err |-> NoErr, panic |-> FALSE,
               before |-> cell]
    /\ UNCHANGED <<image, disk, origin>>

\* cell.SetColoursARGB(fore, back)
SetColoursARGBOp(fore, back) ==
    /\ cell' = SetColoursARGB(cell, fore, back)
    /\ ret' = [op |-> "SetColoursARGB", err |-> NoErr, panic |-> FALSE,
               before |-> cell, fore |-> fore, back |-> back]
    /\ UNCHANGED <<image, disk, origin>>

\* cell.SetColoursRGBA(fore, back)
SetColoursRGBAOp(fore, back) ==
    /\ cell' = SetColoursRGBA(cell, fore, back)
    /\ ret' = [op |-> "SetColoursRGBA", err |-> NoErr, panic |-> FALSE,
               before |-> cell, fore |-> fore, back |-> back]
    /\ UNCHANGED <<image, disk, origin>>

\* fore, back = cell.ARGB()
ARGBOp ==
    /\ ret' = [op |-> "ARGB", err |-> NoErr, panic |-> FALSE,
               fore |-> ARGB(cell).fore, back |-> ARGB(cell).back]
    /\ UNCHANGED <<cell, image, disk, origin>>

\* fore, back = cell.RGBA()
RGBAOp ==
    /\ ret' = [op |-> "RGBA", err |-> NoErr, panic |-> FALSE,
               fore |-> RGBA(cell).fore, back |-> RGBA(cell).back]
    /\ UNCHANGED <<cell, image, disk, origin>>

\* b = cell.Undrawn()
UndrawnOp ==
    /\ ret' = [op |-> "Undrawn", err |-> NoErr, panic |-> FALSE,
               val |-> Undrawn(cell)]
    /\ UNCHANGED <<cell, image, disk, origin>>

NextCell ==
    \/ \E g \in Glyphs : SetGlyphOp(g)
    \/ ClearOp
    \/ \E fore \in ForeInputs, back \in BackInputs :
          SetColoursARGBOp(fore, back)
    \/ \E fore \in ForeInputs, back \in BackInputs :
          SetColoursRGBAOp(fore, back)
    \/ ARGBOp
    \/ RGBAOp
    \/ UndrawnOp

SpecCell == Init /\ [][NextCell]_vars

---------------------------------------------------------------------------
(* Properties *)

Magenta(cd) == cd.R_b = 255 /\ cd.G_b = 0 /\ cd.B_b = 255
BlackFore(cd) == cd.R_f = 0 /\ cd.G_f = 0 /\ cd.B_f = 0
SameFore(c1, c2) ==
    c1.R_f = c2.R_f /\ c1.G_f = c2.G_f /\ c1.B_f = c2.B_f

\* the last call was a colour setter whose back argument has alpha 0: the
\* top byte for SetColoursARGB, the low byte for SetColoursRGBA
AlphaZeroCall ==
    \/ ret.op = "SetColoursARGB" /\ ret.back[1] = 0
    \/ ret.op = "SetColoursRGBA" /\ ret.back[4] = 0

\* C5 as stated: after SetColoursARGB(fore, back) with the top byte of back
\* 0, or SetColoursRGBA(fore, back) with the low byte of back 0, the cell's
\* background is (255,0,255) and its foreground is black (0,0,0), whatever
\* fore and the colours before the call.
C5_ForcedBlack ==
    AlphaZeroCall => Magenta(cell) /\ BlackFore(cell)

\* C5 amended: after such a call the cell's background is (255,0,255), so
\* Undrawn() holds, and its foreground and glyph are those it had before
\* the call, whatever fore is.
C5_UndrawnKeepsFore ==
    AlphaZeroCall =>
        /\ Magenta(cell)
        /\ Undrawn(cell)
        /\ SameFore(cell, ret.before)
        /\ cell.Glyph = ret.before.Glyph

\* C5 witness: SetColoursARGB(0xFFFFFFFF, 0x00112233) on a cell whose
\* foreground was not black and whose background was not magenta
C5_Witness ==
    /\ AlphaZeroCall
    /\ ret.op = "SetColoursARGB"
    /\ ~BlackFore(ret.before)
    /\ ~Magenta(ret.before)
    /\ ret.fore = U32(255, 255, 255, 255)
    /\ ret.back = U32(0, 17, 34, 51)

---------------------------------------------------------------------------

\* the last call was an Import that opened the file, whose gzip header was
\* accepted
Opened == ret.op = "Import" /\ ret.hdr

\* ... and whose whole payload decompressed
Intact == Opened /\ ret.cut = Len(disk.data)

Coords(img) == (0..(img.Width - 1)) \X (0..(img.Height - 1))

\* C1: an image built by Init and SetCell, exported with Export and read
\* back with Import from the intact file, comes back without error, with
\* the same Width, the same Height and the same cell at every (x, y).
C1_RoundTrip ==
    (Intact /\ origin.kind = "Export") =>
        /\ ret.err = NoErr
        /\ image.Width = origin.image.Width
        /\ image.Height = origin.image.Height
        /\ \A xy \in Coords(origin.image) :
              /\ GetCell(image, xy[1], xy[2]).err = NoErr
              /\ GetCell(image, xy[1], xy[2]).cd
                     = origin.image.Cells[xy[1] + xy[2] * origin.image.Width + 1]

\* C1 witness: a 2 by 3 image with two drawn cells has made the round trip
C1_Witness ==
    /\ Intact
    /\ origin.kind = "Export"
    /\ origin.image.Width = 2
    /\ origin.image.Height = 3
    /\ Drawn(origin.image) >= 2
    /\ origin.image.Cells[3] = CellRich
    /\ ret.err = NoErr

\* the claim's condition for a failing cell access
OutOfImage(img, x, y) ==
    \/ ~(0 <= x /\ x < img.Width)
    \/ ~(0 <= y /\ y < img.Height)
    \/ Len(img.Cells) = 0

\* C2: in every reachable image state, GetCell(x, y) and SetCell(x, y, c)
\* never panic, and return an error exactly when x is outside [0, Width) or
\* y is outside [0, Height) or the image has zero cells.
C2_BoundsErrors ==
    /\ ~ret.panic
    /\ \A x \in Xs, y \in Ys :
          /\ ~GetCell(image, x, y).panic
          /\ (GetCell(image, x, y).err # NoErr) <=> OutOfImage(image, x, y)
          /\ \A c \in CellValues :
                /\ ~SetCell(image, x, y, c).panic
                /\ (SetCell(image, x, y, c).err # NoErr)
                       <=> OutOfImage(image, x, y)

\* C2 witness: SetCell has failed on an image of zero cells whose height
\* is not 0
C2_Witness ==
    /\ ret.op = "SetCell"
    /\ ret.err # NoErr
    /\ Len(image.Cells) = 0
    /\ image.Height > 0

\* C8: len(Cells) = Width*Height in every reachable state, and a step
\* changes Width, Height or the number of cells only by Init: the caller's
\* call, or the call Import makes on the image it returns.  SetCell and
\* GetCell change none of them.
C8_Size ==
    /\ [](Len(image.Cells) = image.Width * image.Height)
    /\ [][(\/ image'.Width # image.Width
           \/ image'.Height # image.Height
           \/ Len(image'.Cells) # Len(image.Cells))
            => ret'.op \in {"Init", "Import"}]_vars

\* C8 witness: Import has failed after its call of Init, leaving an image
\* with cells
C8_Witness ==
    /\ ret.op = "Import"
    /\ ret.err # NoErr
    /\ Len(image.Cells) > 1

\* the 10 bytes of the record of cell c, written out field by field
RecordBytes(c) ==
    <<c.Glyph % 256, (c.Glyph \div 256) % 256, (c.Glyph \div 65536) % 256,
      (c.Glyph \div 16777216) % 256,
      c.R_f, c.G_f, c.B_f, c.R_b, c.G_b, c.B_b>>

\* C9: the bytes Export hands to the gzip writer are version -1 and layer
\* count 1, width, height (4 bytes each, little-endian), then width*height
\* records of 10 bytes, the cell at (x, y) being record x*height + y; a 1x1
\* image of glyph 88, fg (255,255,255), bg (0,0,0) gives header -1, 1, 1, 1
\* and record 88, 255,255,255, 0,0,0.
C9_Layout ==
    origin.kind = "Export" =>
        LET img == origin.image
            b == disk.data
        IN  /\ Len(b) = 16 + 10 * img.Width * img.Height
            /\ SubSeq(b, 1, 4) = <<255, 255, 255, 255>>
            /\ LE32Signed(SubSeq(b, 1, 4)) = -1
            /\ SubSeq(b, 5, 8) = <<1, 0, 0, 0>>
            /\ SubSeq(b, 9, 12) = <<img.Width, 0, 0, 0>>
            /\ SubSeq(b, 13, 16) = <<img.Height, 0, 0, 0>>
            /\ \A xy \in Coords(img) :
                  LET k == xy[1] * img.Height + xy[2]
                  IN  SubSeq(b, 16 + 10 * k + 1, 16 + 10 * k + 10)
                        = RecordBytes(img.Cells[xy[1] + xy[2] * img.Width + 1])
            /\ (img = [Width |-> 1, Height |-> 1, Cells |-> <<CellX>>]
                  => b = <<255, 255, 255, 255, 1, 0, 0, 0, 1, 0, 0, 0,
                           1, 0, 0, 0, 88, 0, 0, 0, 255, 255, 255, 0, 0, 0>>)

\* C9 witness: a 2 by 3 image with CellRich at (1, 0) and CellX at (0, 2)
\* has been exported
C9_Witness ==
    /\ ret.op = "Export"
    /\ ret.err = NoErr
    /\ origin.kind = "Export"
    /\ origin.image.Width = 2
    /\ origin.image.Height = 3
    /\ origin.image.Cells[2] = CellRich
    /\ origin.image.Cells[5] = CellX

---------------------------------------------------------------------------
(* Properties of Import on the files REXPaint saved *)

\* every layer of the file has the first layer's dimensions
SameDims(d) == d.n <= 1 \/ (d.w2 = d.w /\ d.h2 = d.h)

\* the bytes Import takes from a file of d.n >= 1 layers when none is
\* missing: 8 for version and layer count and, for each layer, 8 for its
\* dimensions and 10 for each of d.w * d.h records
Need(d) == 8 + d.n * (8 + 10 * d.w * d.h)

\* the bytes Import asks the reader for: a file without layers is still
\* asked for the first layer's dimensions
Demand(d) == IF d.n = 0 THEN 16 ELSE Need(d)

\* the offset at which Import reads record k of layer l (l = 1 the lowest)
Off(d, l, k) == 8 + 8 * l + 10 * d.w * d.h * (l - 1) + 10 * k

\* C3: importing the intact file of N >= 1 layers that all have the first
\* layer's dimensions gives, at every coordinate, the cell of the last
\* layer, also where the last layer's cell is undrawn.
C3_LastLayerWins ==
    (Intact /\ origin.kind = "Paint" /\ origin.d.n >= 1
         /\ SameDims(origin.d)) =>
        LET d == origin.d
        IN  /\ ret.err = NoErr
            /\ image.Width = d.w
            /\ image.Height = d.h
            /\ \A xy \in (0..(d.w - 1)) \X (0..(d.h - 1)) :
                  /\ GetCell(image, xy[1], xy[2]).err = NoErr
                  /\ GetCell(image, xy[1], xy[2]).cd
                         = PaintCell(d.n, xy[1] * d.h + xy[2])

\* C3 witness: a file of two layers of 2 by 3 was imported, and at (0, 0)
\* the upper layer is undrawn where the lower layer is drawn
C3_Witness ==
    /\ Intact
    /\ origin.kind = "Paint"
    /\ origin.d.n = 2
    /\ origin.d.w = 2 /\ origin.d.h = 3
    /\ SameDims(origin.d)
    /\ Undrawn(PaintCell(2, 0))
    /\ ~Undrawn(PaintCell(1, 0))
    /\ Undrawn(GetCell(image, 0, 0).cd)
    /\ GetCell(image, 0, 0).cd.Glyph = PaintCell(2, 0).Glyph

\* C4: Import puts the record of stored index k of a w by h layer at
\* (k / h, k % h), which is slot k/h + (k % h)*w of Cells, and not at
\* (k % w, k / w) where that is another coordinate.
C4_ColumnMajor ==
    (Intact /\ origin.kind = "Paint" /\ origin.d.n >= 1
         /\ SameDims(origin.d)) =>
        LET d == origin.d
        IN  \A k \in 0..(d.w * d.h - 1) :
               /\ image.Cells[(k \div d.h) + (k % d.h) * d.w + 1]
                      = PaintCell(d.n, k)
               /\ GetCell(image, k \div d.h, k % d.h).cd.Glyph
                      = PaintCell(d.n, k).Glyph
               /\ (<<k % d.w, k \div d.w>> # <<k \div d.h, k % d.h>>
                      => GetCell(image, k % d.w, k \div d.w).cd
                            # PaintCell(d.n, k))

\* C4 witness: the file of one layer of width 2 and height 3, six glyphs
\* that differ, was imported, and glyph 1 is at (0, 1), not at (1, 0)
C4_Witness ==
    /\ Intact
    /\ origin.kind = "Paint"
    /\ origin.d.n = 1
    /\ origin.d.w = 2 /\ origin.d.h = 3
    /\ Cardinality({PaintCell(1, k).Glyph : k \in 0..5}) = 6
    /\ GetCell(image, 0, 1).cd.Glyph = PaintCell(1, 1).Glyph
    /\ GetCell(image, 1, 0).cd.Glyph = PaintCell(1, 3).Glyph
    /\ ret.err = NoErr

\* C6 as stated: when Import returns an error, the image it returns holds
\* no cell decoded from the stream: each of its cells, if it has any, is a
\* cleared cell.
C6_NoPartialImage ==
    (ret.op = "Import" /\ ret.err # NoErr) =>
        \A i \in DOMAIN image.Cells : image.Cells[i] = Clear(ZeroCell)

\* C6 amended: when Import returns an error that arose before the first
\* layer's dimensions were read (path, open, gzip header, short header),
\* the image is the zero ImageData.  When a later read fails, Import
\* returns the error with the image as painted so far: the first layer's
\* dimensions, every record read before the failing read at its place,
\* later layers over earlier ones, and cleared cells elsewhere.
C6_ErrorImage ==
    (ret.op = "Import" /\ ret.err # NoErr) =>
        IF ~ret.hdr \/ ret.cut < 16
        THEN image = ZeroImage
        ELSE LET d == origin.d
                 WasRead(l, k) == Off(d, l, k) + 10 <= ret.cut
                 Top(k) == CHOOSE l \in 1..d.n :
                             /\ WasRead(l, k)
                             /\ \A m \in 1..d.n : WasRead(m, k) => m <= l
             IN  /\ image.Width = d.w
                 /\ image.Height = d.h
                 /\ Len(image.Cells) = d.w * d.h
                 /\ \A k \in 0..(d.w * d.h - 1) :
                       image.Cells[(k \div d.h) + (k % d.h) * d.w + 1]
                         = IF WasRead(1, k)
                           THEN CellOfBytes(SubSeq(disk.data,
                                                   Off(d, Top(k), k) + 1,
                                                   Off(d, Top(k), k) + 10))
                           ELSE Clear(ZeroCell)

\* C6 witness: Import failed in the second layer of a 2 by 3 file, with
\* records of both layers and a cleared cell in the image it returned
C6_Witness ==
    /\ ret.op = "Import"
    /\ ret.err # NoErr
    /\ origin.kind = "Paint"
    /\ origin.d.w = 2 /\ origin.d.h = 3
    /\ SameDims(origin.d)
    /\ Len(image.Cells) = 6
    /\ image.Cells[1] = PaintCell(2, 0)
    /\ image.Cells[2] = PaintCell(1, 3)

\* C7 as stated: Import on a proper prefix of the payload of any file of
\* the .xp layout returns an error.
C7_EveryPrefixFails ==
    (Opened /\ origin.kind = "Paint" /\ ret.cut < Len(disk.data)) =>
        ret.err # NoErr

\* C7 amended: Import on a prefix of the payload of any file of the .xp
\* layout returns an error when the prefix ends before the last byte
\* Import reads, wherever that is: in the version, the layer count, a
\* first or later layer's width or height, or a cell record.  For a file
\* whose layers all have the first layer's dimensions that is every
\* proper prefix.
C7_PrefixFails ==
    (Opened /\ origin.kind = "Paint") =>
        /\ ret.cut < Demand(origin.d) => ret.err # NoErr
        /\ (SameDims(origin.d) /\ ret.cut < Len(disk.data))
               => ret.err # NoErr

\* C7 witness: the payload of a file of two layers without cells ended in
\* the second layer's dimensions, and Import returned an error
C7_Witness ==
    /\ Opened
    /\ origin.kind = "Paint"
    /\ origin.d.n = 2
    /\ origin.d.w * origin.d.h = 0
    /\ SameDims(origin.d)
    /\ ret.cut > 16
    /\ ret.cut < Len(disk.data)
    /\ ret.err # NoErr

\* C10: Import takes 8 bytes of dimensions and exactly w*h records for
\* every layer, w and h being the first layer's, whatever the later
\* layers declare: it returns no error exactly when those bytes are there,
\* the image then has the first layer's Width and Height, and the bytes
\* taken are the whole payload when all layers have the first layer's
\* dimensions.
C10_LaterDims ==
    (Opened /\ origin.kind = "Paint" /\ origin.d.n >= 1) =>
        LET d == origin.d
        IN  /\ (ret.err = NoErr) <=> (ret.cut >= Need(d))
            /\ ret.err = NoErr =>
                  /\ ret.pos = Need(d)
                  /\ image.Width = d.w
                  /\ image.Height = d.h
                  /\ Len(image.Cells) = d.w * d.h
            /\ SameDims(d) => Need(d) = Len(disk.data)

\* C10 witness: a file whose second layer declares 2 by 3 after a first
\* layer of 1 by 2 was imported without error
C10_Witness ==
    /\ Intact
    /\ origin.kind = "Paint"
    /\ origin.d.n = 2
    /\ origin.d.w = 1 /\ origin.d.h = 2
    /\ origin.d.w2 = 2 /\ origin.d.h2 = 3
    /\ ret.err = NoErr
    /\ ret.pos < Len(disk.data)
    /\ image.Width = 1 /\ image.Height = 2

=============================================================================
